---- MODULE Spec2Model ----
(***************************************************************************)
(* Model of problem1.py: a monitor that launches an executable, polls its  *)
(* CPU / memory / handle usage in a loop, appends one CSV line per poll to *)
(* a log file, and kills the executable from an atexit handler.            *)
(*                                                                         *)
(* The monitor is one thread; pc is its position in the script.  The child *)
(* process, the wall clock, the log device and the operator (signals) are  *)
(* the environment and move on their own.                                  *)
(***************************************************************************)
EXTENDS Integers, Sequences, FiniteSets, TLC

\* ------------------------------------------------------------------ bounds
MaxPolls == 3     \* collect_data calls started in one run
MaxRes   == 1     \* times the child changes its resource usage

\* ------------------------------------------------------------------- state
VARIABLES
    pc,          \* position of the monitor in the script
    system,      \* platform.system()
    win,         \* the windows_platform flag of the script
    child,       \* "none" | "running" | "exited" | "killed"
    childRes,    \* the child's current resource usage (index of a usage level)
    handlers,    \* number of stop_process handlers registered with atexit
    stopCalls,   \* number of times stop_process has been entered
    stopRaised,  \* stop_process raised out of proc.kill()
    exitCode,    \* exit status of the monitor, NoExit while it runs
    cause,       \* the exception (or signal) that ended the sampling, "none" so far
    polls,       \* collect_data calls started
    okPolls,     \* the calls among them that returned a sample
    res,         \* the dict collect_data is filling
    data,        \* the module-level variable data
    buf,         \* lines written to the log object, not yet flushed
    disk,        \* lines flushed to the log file
    sinkOK,      \* the log device accepts writes
    written,     \* write_line calls that returned
    sinkErrAt,   \* value of written when a log write raised, NoExit if none did
    now,         \* the wall clock, in sampling intervals
    clockBack    \* the clock was set back since the last record was stamped

vars == <<pc, system, win, child, childRes, handlers, stopCalls, stopRaised,
          exitCode, cause, polls, okPolls, res, data, buf, disk, sinkOK,
          written, sinkErrAt, now, clockBack>>

NoExit == 0 - 1
Unset  == 0 - 1

Systems == {"Windows", "Linux", "Darwin"}

\* Positions of the main program (between process start and interpreter exit).
MainPcs == {"launch", "register", "header", "header_flush",
            "poll_cpu", "poll_mem", "poll_files", "write", "flush"}

\* Positions inside collect_data, and positions after the main program.
PollPcs == {"poll_cpu", "poll_mem", "poll_files"}
ExitPcs == {"exiting", "closing", "done"}

\* ------------------------------------------------- the observed executable
\* What psutil reports for a child at usage level s.  The four readings are
\* pairwise different so that a record can be traced back to its readings.
cpu_percent(s) == s
memory_info(s) == <<10 + s, 20 + s>>
num_handles(s) == 30 + s
num_fds(s)     == 40 + s

EmptyRes == [poll |-> Unset, cpu |-> Unset, memory |-> <<Unset, Unset>>, files |-> Unset]

\* ------------------------------------------------------------ platform (96-105)
DetectWindows_notLinux(sys) == sys # "Linux"
DetectWindows(sys) == sys = "Windows"

\* ---------------------------------------------------------------- log lines
write_header_line(w) ==
    [kind   |-> "header",
     fields |-> <<"timestamp", "cpu",
                  IF w THEN "working_set" ELSE "rss",
                  IF w THEN "private_bytes" ELSE "vms",
                  IF w THEN "open_handles" ELSE "file_descriptors">>,
     src    |-> <<Unset, Unset>>]

\* write_line(f, d): cpu is taken from the argument d, memory and files from
\* the module-level data (g).  src records which polls the values came from.
write_line_line_unbound(ts, d, g) ==
    [kind   |-> "data",
     fields |-> <<ts, d.cpu, EmptyRes.memory[1], EmptyRes.memory[2], EmptyRes.files>>,
     src    |-> <<d.poll, EmptyRes.poll>>]
write_line_line_stamp0(ts, d, g) ==
    [kind   |-> "data",
     fields |-> <<0, d.cpu, g.memory[1], g.memory[2], g.files>>,
     src    |-> <<d.poll, g.poll>>]
write_line_line_swapped(ts, d, g) ==
    [kind   |-> "data",
     fields |-> <<ts, d.cpu, g.memory[2], g.memory[1], g.files>>,
     src    |-> <<d.poll, g.poll>>]
write_line_line(ts, d, g) ==
    [kind   |-> "data",
     fields |-> <<ts, d.cpu, g.memory[1], g.memory[2], g.files>>,
     src    |-> <<d.poll, g.poll>>]

Sink == disk \o buf

DataLines(s) == {i \in 1..Len(s) : s[i].kind = "data"}
HeaderLines(s) == {i \in 1..Len(s) : s[i].kind = "header"}

\* ---------------------------------------------------------------- Init
Init ==
    /\ pc = "launch"
    /\ system \in Systems
    /\ win = DetectWindows(system)
    /\ child = "none"
    /\ childRes = 0
    /\ handlers = 0
    /\ stopCalls = 0
    /\ stopRaised = FALSE
    /\ exitCode = NoExit
    /\ cause = "none"
    /\ polls = 0
    /\ okPolls = {}
    /\ res = EmptyRes
    /\ data = EmptyRes
    /\ buf = <<>>
    /\ disk = <<>>
    /\ sinkOK = TRUE
    /\ written = 0
    /\ sinkErrAt = NoExit
    /\ now = 0
    /\ clockBack = FALSE

\* ------------------------------------------------------ interpreter exit
\* sys.exit(code), or an exception nobody catches: the main program is over
\* and the interpreter shuts down (atexit handlers, then the open files).
Exit(code, why) ==
    /\ pc' = "exiting"
    /\ exitCode' = code
    /\ cause' = why

\* ------------------------------------------------------ run_process (46-53)
\* Where the script goes when psutil.Popen raises: print(e); sys.exit(1).
OnLaunchError_continue == "register"
OnLaunchError == "exiting"

Launch ==
    /\ pc = "launch"
    /\ \E ok \in BOOLEAN :
         IF ok
         THEN /\ child' = "running"
              /\ pc' = "register"
              /\ UNCHANGED <<exitCode, cause>>
         ELSE /\ pc' = OnLaunchError
              /\ exitCode' = 1
              /\ cause' = "LaunchError"
              /\ UNCHANGED child
    /\ UNCHANGED <<system, win, childRes, handlers, stopCalls, stopRaised,
                   polls, okPolls, res, data, buf, disk, sinkOK, written,
                   sinkErrAt, now, clockBack>>

\* ------------------------------------------------- atexit.register (111)
Register ==
    /\ pc = "register"
    /\ handlers' = handlers + 1
    /\ pc' = "header"
    /\ UNCHANGED <<system, win, child, childRes, stopCalls, stopRaised,
                   exitCode, cause, polls, okPolls, res, data, buf, disk,
                   sinkOK, written, sinkErrAt, now, clockBack>>

\* ------------------------------------------------------ the log object
\* f.write(line): the line goes to the object's buffer, or the call raises.
\* f.flush(): the buffer goes to the file, or the call raises.
SinkRaise ==
    /\ sinkErrAt' = written
    /\ Exit(1, "SinkWriteError")

\* ---------------------------------------------------- write_header (69-74)
WriteHeader ==
    /\ pc = "header"
    /\ IF sinkOK
       THEN /\ buf' = Append(buf, write_header_line(win))
            /\ pc' = "header_flush"
            /\ UNCHANGED <<exitCode, cause, sinkErrAt>>
       ELSE /\ SinkRaise
            /\ UNCHANGED buf
    /\ UNCHANGED <<system, win, child, childRes, handlers, stopCalls,
                   stopRaised, polls, okPolls, res, data, disk, sinkOK,
                   written, now, clockBack>>

FlushHeader ==
    /\ pc = "header_flush"
    /\ IF sinkOK
       THEN /\ disk' = disk \o buf
            /\ buf' = <<>>
            /\ pc' = "poll_cpu"
            /\ UNCHANGED <<exitCode, cause, sinkErrAt>>
       ELSE /\ SinkRaise
            /\ UNCHANGED <<buf, disk>>
    /\ UNCHANGED <<system, win, child, childRes, handlers, stopCalls,
                   stopRaised, polls, okPolls, res, data, sinkOK, written, now,
                   clockBack>>

\* ---------------------------------------------------- collect_data (56-66)
\* Outcome of one psutil query of the child: a value while it runs (or
\* AccessDenied when the OS refuses), NoSuchProcess once it is gone.
PsutilOutcomes(c) ==
    IF c = "running" THEN {"ok", "AccessDenied"} ELSE {"NoSuchProcess"}

\* The except clause of the main loop (119): the exceptions it catches.
Caught_any(e) == TRUE
Caught(e) == e = "NoSuchProcess"

\* Where the script goes from the except clause: print; sys.exit() (120-121).
OnProcessGone_write == "write"
OnProcessGone_continue == "poll_cpu"
OnProcessGone == "exiting"

\* An exception leaves collect_data: the loop's try statement (117-121)
\* handles it or lets it end the program.  data is not assigned.
PollRaise(e) ==
    /\ cause' = e
    /\ IF Caught(e)
       THEN /\ pc' = OnProcessGone
            /\ exitCode' = 0
       ELSE /\ pc' = "exiting"
            /\ exitCode' = 1

\* res = dict(); with p.oneshot(): res["cpu"] = proc.cpu_percent(interval).
\* cpu_percent blocks for the interval (a positive time, 23-28), then reads
\* the child.
PollCpu ==
    /\ pc = "poll_cpu"
    /\ polls < MaxPolls
    /\ polls' = polls + 1
    /\ now' = now + 1
    /\ \E o \in PsutilOutcomes(child) :
         IF o = "ok"
         THEN /\ res' = [EmptyRes EXCEPT !.poll = polls + 1,
                                         !.cpu = cpu_percent(childRes)]
              /\ pc' = "poll_mem"
              /\ UNCHANGED <<exitCode, cause>>
         ELSE /\ PollRaise(o)
              /\ res' = [EmptyRes EXCEPT !.poll = polls + 1]
    /\ UNCHANGED <<system, win, child, childRes, handlers, stopCalls,
                   stopRaised, okPolls, data, buf, disk, sinkOK, written,
                   sinkErrAt, clockBack>>

\* res["memory"] = proc.memory_info()
PollMem ==
    /\ pc = "poll_mem"
    /\ \E o \in PsutilOutcomes(child) :
         IF o = "ok"
         THEN /\ res' = [res EXCEPT !.memory = memory_info(childRes)]
              /\ pc' = "poll_files"
              /\ UNCHANGED <<exitCode, cause>>
         ELSE /\ PollRaise(o)
              /\ UNCHANGED res
    /\ UNCHANGED <<system, win, child, childRes, handlers, stopCalls,
                   stopRaised, polls, okPolls, data, buf, disk, sinkOK,
                   written, sinkErrAt, now, clockBack>>

\* res["files"] = proc.num_handles() or proc.num_fds(); return res;
\* data = collect_data(...) (118); the verbose print changes no state.
PollFiles ==
    /\ pc = "poll_files"
    /\ \E o \in PsutilOutcomes(child) :
         IF o = "ok"
         THEN /\ res' = [res EXCEPT !.files = IF win THEN num_handles(childRes)
                                                     ELSE num_fds(childRes)]
              /\ data' = res'
              /\ okPolls' = okPolls \cup {res.poll}
              /\ pc' = "write"
              /\ UNCHANGED <<exitCode, cause>>
         ELSE /\ PollRaise(o)
              /\ UNCHANGED <<res, data, okPolls>>
    /\ UNCHANGED <<system, win, child, childRes, handlers, stopCalls,
                   stopRaised, polls, buf, disk, sinkOK, written, sinkErrAt, now,
                   clockBack>>

\* ------------------------------------------------------ write_line (77-84)
\* Where write_line goes after f.write: f.flush() (84).
AfterWrite_noflush == "poll_cpu"
AfterWrite == "flush"

\* Where the loop goes after write_line returned: the next collect_data (116).
LoopTarget_header == "header"
LoopTarget_register == "register"
LoopTarget == "poll_cpu"

\* What the loop does when write_line raises: nothing catches it.
OnSinkError_swallow == "poll_cpu"
OnSinkError == "exiting"

\* write_line(args.log, data): timestamp, the record, f.write.
WriteLine ==
    /\ pc = "write"
    /\ IF sinkOK
       THEN /\ buf' = Append(buf, write_line_line(now, data, data))
            /\ clockBack' = FALSE
            /\ pc' = AfterWrite
            /\ UNCHANGED <<exitCode, cause, sinkErrAt, written>>
       ELSE /\ sinkErrAt' = written
            /\ pc' = OnSinkError
            /\ exitCode' = 1
            /\ cause' = "SinkWriteError"
            /\ UNCHANGED <<buf, written, clockBack>>
    /\ UNCHANGED <<system, win, child, childRes, handlers, stopCalls,
                   stopRaised, polls, okPolls, res, data, disk, sinkOK, now>>

\* f.flush() of write_line, then back to the head of the loop.
FlushLine ==
    /\ pc = "flush"
    /\ IF sinkOK
       THEN /\ disk' = disk \o buf
            /\ buf' = <<>>
            /\ written' = written + 1
            /\ pc' = LoopTarget
            /\ UNCHANGED <<exitCode, cause, sinkErrAt>>
       ELSE /\ sinkErrAt' = written
            /\ pc' = OnSinkError
            /\ exitCode' = 1
            /\ cause' = "SinkWriteError"
            /\ UNCHANGED <<buf, disk, written>>
    /\ UNCHANGED <<system, win, child, childRes, handlers, stopCalls,
                   stopRaised, polls, okPolls, res, data, sinkOK, now,
                   clockBack>>

\* ------------------------------------------------------ stop_process (87-89)
\* proc.kill() on the child in state c: the signal is delivered to a running
\* child; for a child that has already ended psutil either finds the process
\* entry still there (nothing happens) or raises NoSuchProcess.
KillOutcomes(c) ==
    IF c = "running" THEN {"ok"} ELSE {"ok", "NoSuchProcess"}

\* How many times the interpreter runs the handler: once per registration.
HandlerRuns(h) == h

\* Interpreter shutdown, first part: the atexit handlers (110-111).  An
\* exception in a handler is printed and does not change the exit status.
AtExit ==
    /\ pc = "exiting"
    /\ pc' = "closing"
    /\ stopCalls' = stopCalls + HandlerRuns(handlers)
    /\ IF HandlerRuns(handlers) = 0
       THEN UNCHANGED <<child, stopRaised>>
       ELSE \E o \in KillOutcomes(child) :
              /\ child' = IF child = "running" THEN "killed" ELSE child
              /\ stopRaised' = (o = "NoSuchProcess")
    /\ UNCHANGED <<system, win, childRes, handlers, exitCode, cause, polls,
                   okPolls, res, data, buf, disk, sinkOK, written, sinkErrAt, now,
                   clockBack>>

\* Interpreter shutdown, second part: the log file opened by argparse (39)
\* is closed, which flushes what is still buffered if the device takes it.
CloseLog ==
    /\ pc = "closing"
    /\ pc' = "done"
    /\ IF sinkOK
       THEN /\ disk' = disk \o buf
            /\ buf' = <<>>
       ELSE UNCHANGED <<buf, disk>>
    /\ UNCHANGED <<system, win, child, childRes, handlers, stopCalls,
                   stopRaised, exitCode, cause, polls, okPolls, res, data,
                   sinkOK, written, sinkErrAt, now, clockBack>>

\* ------------------------------------------------------------ environment
\* Ctrl-C: KeyboardInterrupt is raised in the main program; no except
\* clause of the script catches it (49 and 119 do not), so the interpreter
\* shuts down with a non-zero status.
Interrupt ==
    /\ pc \in MainPcs
    /\ Exit(130, "KeyboardInterrupt")
    /\ UNCHANGED <<system, win, child, childRes, handlers, stopCalls,
                   stopRaised, polls, okPolls, res, data, buf, disk, sinkOK,
                   written, sinkErrAt, now, clockBack>>

\* The monitor is killed outright (SIGKILL, SIGTERM with the default
\* disposition): no handler runs, nothing buffered is flushed.
HardKill ==
    /\ pc \in MainPcs
    /\ pc' = "done"
    /\ exitCode' = 137
    /\ cause' = "killed"
    /\ UNCHANGED <<system, win, child, childRes, handlers, stopCalls,
                   stopRaised, polls, okPolls, res, data, buf, disk, sinkOK,
                   written, sinkErrAt, now, clockBack>>

\* The executable ends on its own, any time before stop_process has run.
ChildExit ==
    /\ child = "running"
    /\ pc \in MainPcs \cup {"exiting"}
    /\ child' = "exited"
    /\ UNCHANGED <<pc, system, win, childRes, handlers, stopCalls, stopRaised,
                   exitCode, cause, polls, okPolls, res, data, buf, disk,
                   sinkOK, written, sinkErrAt, now, clockBack>>

\* The executable changes its resource usage.  Only collect_data looks at
\* it, so the change is taken while a poll is in progress.
ChildWork ==
    /\ child = "running"
    /\ pc \in PollPcs
    /\ childRes < MaxRes
    /\ childRes' = childRes + 1
    /\ UNCHANGED <<pc, system, win, child, handlers, stopCalls, stopRaised,
                   exitCode, cause, polls, okPolls, res, data, buf, disk,
                   sinkOK, written, sinkErrAt, now, clockBack>>

\* The log device stops taking writes (disk full, handle closed).  Only a
\* write, a flush or the close looks at it, so it breaks right before one.
SinkBreak ==
    /\ sinkOK
    /\ \/ pc \in {"header", "header_flush", "write", "flush"}
       \/ pc = "closing" /\ buf # <<>>
    /\ sinkOK' = FALSE
    /\ UNCHANGED <<pc, system, win, child, childRes, handlers, stopCalls,
                   stopRaised, exitCode, cause, polls, okPolls, res, data,
                   buf, disk, written, sinkErrAt, now, clockBack>>

\* The wall clock read by datetime.now() (78) is set back (the system time
\* is adjusted).  Only write_line reads it, so it is set right before.
ClockSetBack ==
    /\ pc = "write"
    /\ \E t \in 0..(now - 1) : now' = t
    /\ clockBack' = TRUE
    /\ UNCHANGED <<pc, system, win, child, childRes, handlers, stopCalls,
                   stopRaised, exitCode, cause, polls, okPolls, res, data,
                   buf, disk, sinkOK, written, sinkErrAt>>

\* ------------------------------------------------------------------ Next
Next ==
    \/ Launch
    \/ Register
    \/ WriteHeader
    \/ FlushHeader
    \/ PollCpu
    \/ PollMem
    \/ PollFiles
    \/ WriteLine
    \/ FlushLine
    \/ AtExit
    \/ CloseLog
    \/ Interrupt
    \/ HardKill
    \/ ChildExit
    \/ ChildWork
    \/ SinkBreak
    \/ ClockSetBack

Spec == Init /\ [][Next]_vars

\* --------------------------------------------------- runs without faults
\* The steps of the monitor itself: the main program (108-127) and the
\* interpreter shutdown.  Each of them returns: cpu_percent blocks for a
\* finite interval, a write or flush completes or raises.
MonitorStep ==
    \/ Launch
    \/ Register
    \/ WriteHeader
    \/ FlushHeader
    \/ PollCpu
    \/ PollMem
    \/ PollFiles
    \/ WriteLine
    \/ FlushLine
    \/ AtExit
    \/ CloseLog

\* The runs in which nobody interrupts or kills the monitor and the log
\* device keeps working.
NextNoFault ==
    \/ MonitorStep
    \/ ChildExit
    \/ ChildWork
    \/ ClockSetBack

\* A sequential program that is not stopped keeps executing: its next step
\* is always enabled until it has ended, so weak fairness is what the
\* interpreter provides.
LiveSpec == Init /\ [][NextNoFault]_vars /\ WF_vars(MonitorStep)

\* ================================================================ claims
OnDisk(k) == \E i \in DataLines(disk) : disk[i].src[1] = k

\* C1 (as stated): on every termination path after a successful launch
\* (normal completion, fatal error of a poll or a log write, Ctrl-C) the
\* launched child is not running once the monitor has exited.  The exit by
\* an uncatchable kill of the monitor is left out of the statement.
C1_ChildStoppedAfterExit ==
    (pc = "done" /\ child # "none" /\ cause # "killed") => child # "running"

C3_OnlyCompleteRecords ==
    /\ \A i \in DataLines(Sink) :
         /\ Sink[i].src[1] \in okPolls
         /\ \A f \in 1..5 : Sink[i].fields[f] # Unset
         /\ \A j \in DataLines(Sink) : Sink[j].src[1] = Sink[i].src[1] => j = i
    /\ cause \in {"NoSuchProcess", "AccessDenied"} =>
         /\ polls \notin okPolls
         /\ buf = <<>>
         /\ Cardinality(DataLines(disk)) = Cardinality(okPolls)

C3_Witness ==
    /\ cause \in {"NoSuchProcess", "AccessDenied"}
    /\ pc = "done"
    /\ polls = 3
    /\ Cardinality(DataLines(disk)) = 2

\* C4: the header is written once and first: a non-empty sink starts with
\* the header of the selected platform, no later line is a header, and once
\* the loop is running the header is on disk.
C4_HeaderOnceAndFirst ==
    /\ Len(Sink) > 0 => Sink[1] = write_header_line(win)
    /\ \A i \in HeaderLines(Sink) : i = 1
    /\ pc \in PollPcs \cup {"write", "flush"} => HeaderLines(disk) = {1}

C4_Witness ==
    Len(disk) = 3 /\ HeaderLines(disk) = {1} /\ DataLines(disk) = {2, 3}

\* C5: when the launch fails the monitor exits with a non-zero status, no
\* poll is made and the sink stays empty.
C5_LaunchFailure ==
    cause = "LaunchError" =>
        /\ pc \in ExitPcs
        /\ exitCode > 0
        /\ polls = 0
        /\ Sink = <<>>
        /\ child = "none"

C5_Witness ==
    cause = "LaunchError" /\ pc = "done" /\ exitCode = 1

\* C6: once a poll has reported the process gone, no further poll is made
\* and no further line is written, and the monitor exits with status 0
\* after stop_process has run.
C6_ProcessGoneStopsLoop ==
    [][ /\ cause = "NoSuchProcess" =>
             /\ pc \in ExitPcs
             /\ polls' = polls
             /\ Sink' = Sink
             /\ disk' = disk
        /\ (cause' = "NoSuchProcess" /\ pc' = "done") =>
             /\ exitCode' = 0
             /\ stopCalls' = 1 ]_vars

C6_Witness ==
    cause = "NoSuchProcess" /\ pc = "done" /\ exitCode = 0 /\ written = 1

\* C7: when a log write raises after k write_line calls have returned, the
\* write is not retried and the failure ends the program with a non-zero
\* status; once the monitor has exited stop_process has run, the child is
\* not running and the log file holds exactly k data lines.
C7_SinkFailureSurfaced ==
    sinkErrAt # NoExit =>
        /\ pc \in ExitPcs
        /\ cause = "SinkWriteError"
        /\ exitCode > 0
        /\ written = sinkErrAt
        /\ pc = "done" =>
             /\ stopCalls = 1
             /\ child # "running"
             /\ Cardinality(DataLines(disk)) = sinkErrAt

\* the case of the scenario: the failure comes after 2 written records
C7_Witness ==
    /\ sinkErrAt = 2
    /\ pc = "done"
    /\ child = "killed"
    /\ Cardinality(DataLines(disk)) = 2

\* C8: a poll failure other than NoSuchProcess is not swallowed: the loop
\* stops, no record is written for that cycle or later, stop_process runs
\* and the monitor exits with a non-zero status.
C8_PollErrorIsFatal ==
    cause = "AccessDenied" =>
        /\ pc \in ExitPcs
        /\ exitCode > 0
        /\ polls \notin okPolls
        /\ \A i \in DataLines(Sink) : Sink[i].src[1] < polls
        /\ buf = <<>>
        /\ Cardinality(DataLines(disk)) = Cardinality(okPolls)
        /\ pc \in {"closing", "done"} => stopCalls = 1

C8_Witness ==
    /\ cause = "AccessDenied"
    /\ pc = "done"
    /\ polls = 2
    /\ DataLines(disk) = {2}
    /\ child = "killed"

\* C9 (as stated): stop_process raises no error when it is invoked on a
\* child that has already exited, as on the normal-completion path, where
\* the exit handler runs after a poll has found the child gone.
C9_StopNeverRaises ==
    cause = "NoSuchProcess" => ~stopRaised

\* C10: whenever a poll is in progress nothing is left in the buffer, and
\* the record of every successful poll before the current cycle is on
\* disk; so when the monitor is killed at most the sample of the cycle in
\* flight is missing from the file.
C10_FlushedBeforeNextPoll ==
    /\ pc \in PollPcs => buf = <<>>
    /\ \A k \in okPolls : k < polls => OnDisk(k)
    /\ cause = "killed" =>
         Cardinality(okPolls) - Cardinality(DataLines(disk)) \in {0, 1}

C10_Witness ==
    /\ cause = "killed"
    /\ Cardinality(okPolls) = 3
    /\ Cardinality(DataLines(disk)) = 2
    /\ Len(buf) = 1

\* The usage levels the child can be at.
Levels == 0..MaxRes

\* C11: on both platforms the header has the five columns timestamp, cpu,
\* mem1, mem2, handles in that order, and every data line has five fields
\* in the same order: the clock reading, the cpu reading, memory[0],
\* memory[1] and the handle count (Windows) or descriptor count (others).
C11_FiveColumnsInOrder ==
    /\ \A w \in BOOLEAN :
         LET h == write_header_line(w).fields
         IN  /\ Len(h) = 5
             /\ h[1] = "timestamp"
             /\ h[2] = "cpu"
             /\ h[3] = (IF w THEN "working_set" ELSE "rss")
             /\ h[4] = (IF w THEN "private_bytes" ELSE "vms")
             /\ h[5] = (IF w THEN "open_handles" ELSE "file_descriptors")
    /\ \A i \in HeaderLines(Sink) : Sink[i] = write_header_line(win)
    /\ \A i \in DataLines(Sink) :
         LET f == Sink[i].fields
         IN  /\ Len(f) = 5
             /\ f[1] \in 0..polls
             /\ f[2] \in {cpu_percent(s) : s \in Levels}
             /\ f[3] \in {memory_info(s)[1] : s \in Levels}
             /\ f[4] \in {memory_info(s)[2] : s \in Levels}
             /\ f[5] \in {IF win THEN num_handles(s) ELSE num_fds(s) : s \in Levels}

C11_Witness ==
    /\ Len(disk) = 3
    /\ \E i \in DataLines(disk) : disk[i].fields[3] = memory_info(MaxRes)[1]

\* C12 (as stated): of two data lines of the sink, the one written first
\* has the strictly smaller timestamp.
C12_TimestampsIncrease ==
    \A i, j \in DataLines(Sink) :
        i < j => Sink[i].fields[1] < Sink[j].fields[1]

\* C12 (amended): a record written right after another one has a strictly
\* larger timestamp than it, unless the system clock was set back between
\* the two writes.
C12_TimestampsIncreaseUnlessSetBack ==
    [][ LET n == Len(Sink)
        IN  ( /\ Len(Sink') = n + 1
              /\ Sink'[n + 1].kind = "data"
              /\ n >= 1
              /\ Sink[n].kind = "data"
              /\ ~clockBack )
            => Sink[n].fields[1] < Sink'[n + 1].fields[1] ]_vars

C12_Witness ==
    /\ DataLines(disk) = {2, 3, 4}
    /\ disk[2].fields[1] > disk[3].fields[1]
    /\ disk[3].fields[1] < disk[4].fields[1]
    /\ ~clockBack

\* C13 (as stated): a run whose child was live at launch and that stops
\* through the process-gone transition has recorded at least one sample.
C13_AtLeastOneSample ==
    (pc = "done" /\ cause = "NoSuchProcess") =>
        Cardinality(DataLines(disk)) >= 1

\* C13 (amended): a run that stops through the process-gone transition
\* exits with status 0 and leaves the header followed by one data line per
\* completed poll; there is at least one data line exactly when the child
\* was still running at the end of the first poll, and none when it ended
\* before.
C13_HeaderAndOneLinePerPoll ==
    cause = "NoSuchProcess" =>
        /\ exitCode = 0
        /\ buf = <<>>
        /\ HeaderLines(disk) = {1}
        /\ DataLines(disk) = 2..Len(disk)
        /\ Len(disk) = 1 + Cardinality(okPolls)
        /\ okPolls = 1..(polls - 1)
        /\ (Cardinality(DataLines(disk)) >= 1) = (1 \in okPolls)

C13_Witness ==
    /\ pc = "done"
    /\ cause = "NoSuchProcess"
    /\ exitCode = 0
    /\ Len(disk) = 3
    /\ stopCalls = 1

\* The strategy in use agrees with the host: Windows names and the handle
\* count on Windows, POSIX names and the descriptor count on any other host.
StrategyMatchesHost ==
    /\ win = (system = "Windows")
    /\ \A i \in HeaderLines(Sink) :
         Sink[i].fields =
             IF system = "Windows"
             THEN <<"timestamp", "cpu", "working_set", "private_bytes",
                    "open_handles">>
             ELSE <<"timestamp", "cpu", "rss", "vms", "file_descriptors">>
    /\ \A i \in DataLines(Sink) :
         Sink[i].fields[5] \in
             IF system = "Windows"
             THEN {num_handles(s) : s \in Levels}
             ELSE {num_fds(s) : s \in Levels}
    /\ (pc = "write" /\ cause = "none") =>
         data.files \in IF system = "Windows"
                        THEN {num_handles(s) : s \in Levels}
                        ELSE {num_fds(s) : s \in Levels}

\* C14: the strategy is fixed at startup from the host (Windows: Windows
\* strategy; Linux and any other host: POSIX strategy), never changes, and
\* the header names and every poll's handle/descriptor reading follow it.
C14_StrategyFixedAndConsistent ==
    [][ /\ StrategyMatchesHost
        /\ StrategyMatchesHost'
        /\ win' = win
        /\ system' = system ]_vars

C14_Witness ==
    /\ system = "Darwin"
    /\ ~win
    /\ Len(disk) = 3
    /\ disk[1].fields[5] = "file_descriptors"
    /\ disk[3].fields[5] = num_fds(MaxRes)

\* C15 (as stated): the readings of one record are one snapshot: the cpu
\* reading, the two memory readings and the handle/descriptor count of
\* every data line were all taken at the same usage level of the child.
C15_RecordIsOneSnapshot ==
    \A i \in DataLines(Sink) :
        \E s \in Levels :
            /\ Sink[i].fields[2] = cpu_percent(s)
            /\ Sink[i].fields[3] = memory_info(s)[1]
            /\ Sink[i].fields[4] = memory_info(s)[2]
            /\ Sink[i].fields[5] = (IF win THEN num_handles(s) ELSE num_fds(s))

\* C16: in a run without other faults, once the child has exited (and the
\* loop may still start a poll, polls < MaxPolls), the monitor eventually
\* ends with status 0 through the NoSuchProcess handler, and by then the
\* record of every successful poll is in the log file and nothing is left
\* in the buffer.
C16_ChildExitLeadsToCleanExit ==
    (child = "exited" /\ cause = "none" /\ polls < MaxPolls)
        ~> (/\ pc = "done"
            /\ exitCode = 0
            /\ cause = "NoSuchProcess"
            /\ buf = <<>>
            /\ \A k \in okPolls : OnDisk(k))

C16_Witness ==
    /\ pc = "done"
    /\ child = "exited"
    /\ exitCode = 0
    /\ cause = "NoSuchProcess"
    /\ okPolls = {1, 2}
    /\ OnDisk(1) /\ OnDisk(2)
    /\ buf = <<>>

\* C17: every data line takes its cpu value (from the argument) and its
\* memory and handle values (from the module-level data) from one and the
\* same successful poll, and the line just written by write_line carries
\* the values of the most recent successful poll, which is the poll the
\* loop has just made.
C17_LineFromOneSample ==
    /\ \A i \in DataLines(Sink) :
          /\ Sink[i].src[1] = Sink[i].src[2]
          /\ Sink[i].src[1] \in okPolls
    /\ pc = "flush" =>
          LET l == buf[Len(buf)]
          IN  /\ l.kind = "data"
              /\ l.src = <<polls, polls>>
              /\ \A k \in okPolls : k <= polls
              /\ data.poll = polls
              /\ l.fields[2] = data.cpu
              /\ l.fields[3] = data.memory[1]
              /\ l.fields[4] = data.memory[2]
              /\ l.fields[5] = data.files

C17_Witness ==
    /\ pc = "flush"
    /\ polls = 2
    /\ okPolls = {1, 2}
    /\ Len(disk) = 2
    /\ disk[2].src = <<1, 1>>
    /\ Len(buf) = 1
    /\ buf[1].src = <<2, 2>>
    /\ buf[1].fields[2] # disk[2].fields[2]
====
